---------------------------- MODULE Spec2Model ----------------------------
(***************************************************************************)
(* A model of the IV inference of kaberett/mon: the Pokemon record of      *)
(* src/pokemon.py (its snapshots, its appraisal, its nickname, and the     *)
(* walk calc_ivs makes over the snapshots) and the Appraisal constraint of *)
(* src/appraisal.py.                                                       *)
(*                                                                         *)
(* The modules iv and species that pokemon.py imports are not among the    *)
(* source files.  Their part (the candidate generator, the level advance,  *)
(* the quality percentage, the CP-scalar table and the species table) is   *)
(* modelled from sections 3, 4.1 and 4.3 of the specification.             *)
(*                                                                         *)
(* Numbers.  Python computes CP, HP and the percentage in floating point;  *)
(* the model computes them exactly, in integers:                           *)
(*   - a cp_scalar is held in hundredths (cp_scalar_pct);                  *)
(*   - int(x * sqrt(y)) is ISqrt(floor(x*x*y)), which is the same number   *)
(*     for reals x, y >= 0;                                                *)
(*   - a percentage is held as the numerator of a fraction over            *)
(*     PercentDen = 3 * MAX_IV, and a band limit in tenths of a percent.   *)
(***************************************************************************)
EXTENDS Integers, FiniteSets, Sequences, TLC

VARIABLES
    snapshots,      \* Pokemon.snapshots: the timeline, a sequence of snapshots
    appraisal,      \* Pokemon.appraisal: None or an Appraisal namedtuple
    nickname,       \* Pokemon.nickname: None or a name
    appraise_args,  \* history: the arguments of the last call of appraise
    pc,             \* where the call of calc_ivs / percentage_range stands
    i,              \* calc_ivs: the index of the snapshot the loop is at
    bound,          \* calc_ivs: the names of its locals that are assigned
    cur_species,    \* calc_ivs: its local variable species
    possible_ivs,   \* calc_ivs: its local variable possible_ivs
    exc,            \* the exception a call ended with, or None
    range,          \* the value percentage_range returned, or None
    probe,          \* valid_iv taken alone: the candidate handed to it
    verdict         \* valid_iv taken alone: the statement and its answer

vars == <<snapshots, appraisal, nickname, appraise_args, pc, i, bound,
          cur_species, possible_ivs, exc, range, probe, verdict>>

record_vars == <<snapshots, appraisal, nickname, appraise_args>>
call_vars == <<pc, i, bound, cur_species, possible_ivs, exc, range>>
probe_vars == <<probe, verdict>>

-----------------------------------------------------------------------------
(* Bounds of the model *)

\* The longest timeline the model builds.
MaxSnapshots == 3

-----------------------------------------------------------------------------
(* Values *)

\* Python's None where a name is expected, where a namedtuple is expected
\* and where a tuple is expected.
None == "None"
NoneRecord == [none |-> TRUE]
NoneTuple == <<>>

Max(a, b) == IF a >= b THEN a ELSE b

\* floor(sqrt(x)), as int(math.sqrt(x)) gives it.
ISqrtTable == [x \in 0..2200 |-> CHOOSE c \in 0..47 : c * c <= x /\ (c + 1) * (c + 1) > x]
ISqrt(x) == ISqrtTable[x]

-----------------------------------------------------------------------------
(* The external tables: species and iv *)

\* The largest value of one hidden stat.
MAX_IV == 15
IVRange == 0..MAX_IV

\* The index of the top modelled level; one index is one half level.
MaxLevel == 7
Levels == 0..MaxLevel

\* The species catalog: name -> base stats.
species == [A |-> [name |-> "A", att |-> 40, dfn |-> 40, sta |-> 40],
            B |-> [name |-> "B", att |-> 46, dfn |-> 45, sta |-> 46]]
SpeciesNames == DOMAIN species

\* IV.cp_scalar, in hundredths, by level index.
cp_scalar_pct(level) == level + 5

\* The dust costs a capture can show and the first level index of each.
DustCosts == {200, 400}
DustBaseLevel(dust) == IF dust = 200 THEN 0 ELSE 4

\* The levels a fresh capture at this dust cost can have: two whole levels,
\* and the two half levels after them when half levels are enabled.
StartLevels(dust, half_levels) ==
    {DustBaseLevel(dust), DustBaseLevel(dust) + 2}
        \cup (IF half_levels
                THEN {DustBaseLevel(dust) + 1, DustBaseLevel(dust) + 3}
                ELSE {})

IV(att, dfn, sta, level) == [att |-> att, dfn |-> dfn, sta |-> sta, level |-> level]

\* iv.IV.possible_ivs(dust, half_levels)
IV_possible_ivs(dust, half_levels) ==
    {IV(a, d, s, l) : a \in IVRange, d \in IVRange, s \in IVRange,
                      l \in StartLevels(dust, half_levels)}

\* iv.increment_level(n): the same stats, n half levels up.  It fails when
\* the level it would give is past MaxLevel (LevelOutOfRange).
LevelOutOfRange(iv, n) == iv.level + n > MaxLevel
increment_level(iv, n) == [iv EXCEPT !.level = @ + n]

\* iv.percentage = (att + dfn + sta) / (3 * MAX_IV) * 100, as the numerator
\* of a fraction over PercentDen.
PercentDen == 3 * MAX_IV
percentage(iv) == (iv.att + iv.dfn + iv.sta) * 100

-----------------------------------------------------------------------------
(* src/appraisal.py *)

\* OverallAppraisal: wonder = 1, attention = 2, average = 3, likely = 4
OverallAppraisal == 1..4
\* TopIV: exceed = 1, impressed = 2, trending = 3, norm = 4
TopIV == 1..4

\* In tenths of a percent.
OVERALL_APPRAISAL_MINIMUM_PERCENTS == <<822, 667, 511, 0>>
OVERALL_APPRAISAL_MAXIMUM_PERCENTS == <<1000, 800, 644, 489>>

IV_APPRAISAL_MINIMUM_VALUE == <<15, 13, 8, 0>>
IV_APPRAISAL_MAXIMUM_VALUE == <<15, 14, 12, 7>>

\* iv.percentage < limit and iv.percentage > limit, the limit in tenths.
PercentBelow(iv, tenths) == percentage(iv) * 10 < tenths * PercentDen
PercentAbove(iv, tenths) == percentage(iv) * 10 > tenths * PercentDen

\* The namedtuple Appraisal: its fields in the order of its declaration.
Appraisal(overall, top_att, top_dfn, top_hp, top_iv) ==
    [overall |-> overall, top_att |-> top_att, top_dfn |-> top_dfn,
     top_hp |-> top_hp, top_iv |-> top_iv]

\* max(iv.att, iv.dfn, iv.sta)
TopOf(iv) == Max(iv.att, Max(iv.dfn, iv.sta))

\* valid_iv, lines 95-98: neither return False is taken.
OverallPasses(overall, iv) ==
    IF PercentBelow(iv, OVERALL_APPRAISAL_MINIMUM_PERCENTS[overall]) THEN FALSE
    ELSE IF PercentAbove(iv, OVERALL_APPRAISAL_MAXIMUM_PERCENTS[overall]) THEN FALSE
    ELSE TRUE

\* valid_iv, lines 100-105
TopIvPasses(top_iv, iv) ==
    IF TopOf(iv) < IV_APPRAISAL_MINIMUM_VALUE[top_iv] THEN FALSE
    ELSE IF TopOf(iv) > IV_APPRAISAL_MAXIMUM_VALUE[top_iv] THEN FALSE
    ELSE TRUE

\* FlagsPass with a flag that is false never checked, as if lines 109-110,
\* 113-114 and 117-118 were missing.
FlagsPassOneSided(self, iv) ==
    IF self.top_att /\ TopOf(iv) # iv.att THEN FALSE
    ELSE IF self.top_dfn /\ TopOf(iv) # iv.dfn THEN FALSE
    ELSE IF self.top_hp /\ TopOf(iv) # iv.sta THEN FALSE
    ELSE TRUE

\* valid_iv, lines 107-118
FlagsPass(self, iv) ==
    IF self.top_att /\ TopOf(iv) # iv.att THEN FALSE
    ELSE IF ~self.top_att /\ TopOf(iv) = iv.att THEN FALSE
    ELSE IF self.top_dfn /\ TopOf(iv) # iv.dfn THEN FALSE
    ELSE IF ~self.top_dfn /\ TopOf(iv) = iv.dfn THEN FALSE
    ELSE IF self.top_hp /\ TopOf(iv) # iv.sta THEN FALSE
    ELSE IF ~self.top_hp /\ TopOf(iv) = iv.sta THEN FALSE
    ELSE TRUE

\* Appraisal.valid_iv
valid_iv(self, iv) ==
    IF ~OverallPasses(self.overall, iv) THEN FALSE
    ELSE IF ~TopIvPasses(self.top_iv, iv) THEN FALSE
    ELSE FlagsPass(self, iv)

-----------------------------------------------------------------------------
(* src/pokemon.py: the snapshots *)

StartSnapshot(sp, cp, hp, dust, half_levels) ==
    [kind |-> "StartSnapshot", species |-> sp, cp |-> cp, hp |-> hp,
     dust |-> dust, half_levels |-> half_levels]

PowerUpSnapshot(cp, hp, dust, power_ups) ==
    [kind |-> "PowerUpSnapshot", cp |-> cp, hp |-> hp, dust |-> dust,
     power_ups |-> power_ups]

EvolutionSnapshot(sp, cp, hp, dust, power_ups) ==
    [kind |-> "EvolutionSnapshot", species |-> sp, cp |-> cp, hp |-> hp,
     dust |-> dust, power_ups |-> power_ups]

\* Whether snapshot.species exists (no AttributeError).
HasSpecies(snapshot) == "species" \in DOMAIN snapshot

\* int(att * sqrt(dfn) * sqrt(sta) * cp_scalar / 10), the scalar in hundredths
FloorCpOf(att, dfn, sta, cs) ==
    ISqrt((att * att * dfn * sta * cs * cs) \div 1000000)

\* int(sta * sqrt(cp_scalar)), the scalar in hundredths
FloorHpOf(sta, cs) == ISqrt((sta * sta * cs) \div 100)

\* calc_cp, lines 182-185
FloorCp(sp, iv) ==
    FloorCpOf(species[sp].att + iv.att, species[sp].dfn + iv.dfn,
              species[sp].sta + iv.sta, cp_scalar_pct(iv.level))

\* calc_hp, line 193
FloorHp(sp, iv) == FloorHpOf(species[sp].sta + iv.sta, cp_scalar_pct(iv.level))

\* calc_cp without its minimum of 10, as if line 186 returned cp.
calc_cp_no_minimum(sp, iv) == FloorCp(sp, iv)

\* Pokemon.calc_cp
calc_cp(sp, iv) == Max(FloorCp(sp, iv), 10)

\* Pokemon.calc_hp
calc_hp(sp, iv) == Max(FloorHp(sp, iv), 10)

\* LoopSpecies with only a StartSnapshot setting the species.
LoopSpeciesStartOnly(snapshot, previous) ==
    IF snapshot.kind = "StartSnapshot" THEN snapshot.species ELSE previous

\* calc_ivs, lines 198-204: the species the loop goes on with.
LoopSpecies(snapshot, previous) ==
    IF HasSpecies(snapshot) THEN snapshot.species ELSE previous

\* calc_ivs, lines 210-211: every candidate n half levels up.
AdvanceAll(ivs, n) == {increment_level(iv, n) : iv \in ivs}

\* calc_ivs, lines 214-215: the condition of the observation filter.
MatchesObservation(sp, iv, snapshot) ==
    calc_cp(sp, iv) = snapshot.cp /\ calc_hp(sp, iv) = snapshot.hp

\* calc_ivs, lines 213-215
ObservationFilter(ivs, sp, snapshot) ==
    {iv \in ivs : MatchesObservation(sp, iv, snapshot)}

\* calc_ivs, lines 217-219
AppraisalFilter(ivs, statement) ==
    IF statement # NoneRecord THEN {iv \in ivs : valid_iv(statement, iv)} ELSE ivs

\* The property Pokemon.species: the species of the last snapshot that has
\* one, None when no snapshot has.
RECURSIVE SpeciesBefore(_, _)
SpeciesBefore(snaps, k) ==
    IF k = 0 THEN None
    ELSE IF HasSpecies(snaps[k]) THEN snaps[k].species
    ELSE SpeciesBefore(snaps, k - 1)

Pokemon_species == SpeciesBefore(snapshots, Len(snapshots))

-----------------------------------------------------------------------------
(* The inputs the model draws *)

Names == {"n"}
StartSpecies == {"A"}
EvolveSpecies == {"B"}
StartObservations == {<<10, 10>>, <<9, 10>>, <<24, 14>>}
PowerUpObservations == {<<26, 15>>, <<33, 17>>}
EvolveObservations == {<<30, 16>>, <<33, 17>>}
PowerUpSteps == {1, 2}
EvolveSteps == {0}
\* The dust cost of a power-up or an evolution is stored and never read.
EventDust == {400}

StartInputs ==
    {StartSnapshot(sp, o[1], o[2], d, h) :
        sp \in StartSpecies, o \in StartObservations, d \in DustCosts,
        h \in BOOLEAN}

\* The lists of snapshots the constructor is handed: none (its default, the
\* empty list) or the list of one StartSnapshot.
CtorSnapshots == {<<>>} \cup {<<s>> : s \in StartInputs}

\* The arguments of appraise, in the order of its parameters.
AppraiseArgs(overall, top_hp, top_att, top_dfn, top_iv) ==
    [overall |-> overall, top_hp |-> top_hp, top_att |-> top_att,
     top_dfn |-> top_dfn, top_iv |-> top_iv]
AppraiseInputs ==
    {AppraiseArgs(4, TRUE, FALSE, FALSE, 3),
     AppraiseArgs(2, FALSE, TRUE, TRUE, 2)}

-----------------------------------------------------------------------------
(* The Pokemon record *)

NoCall ==
    /\ pc = "idle"
    /\ i = 0
    /\ bound = {}
    /\ cur_species = None
    /\ possible_ivs = {}
    /\ exc = None
    /\ range = NoneTuple

NoProbe == probe = NoneRecord /\ verdict = NoneRecord

\* Pokemon.__init__(snapshots, appraisal=None, nickname)
InitCtor ==
    /\ snapshots \in CtorSnapshots
    /\ appraisal = NoneRecord
    /\ nickname \in {None} \cup Names

\* Pokemon.new(species, cp, hp, dust, name, half_levels)
InitNew ==
    /\ snapshots \in {<<s>> : s \in StartInputs}
    /\ appraisal = NoneRecord
    /\ nickname \in {None} \cup Names

Init ==
    /\ InitCtor \/ InitNew
    /\ appraise_args = NoneRecord
    /\ NoCall
    /\ NoProbe

\* Pokemon.power_up(cp, hp, dust, power_ups)
power_up(cp, hp, dust, power_ups) ==
    /\ pc = "idle"
    /\ Len(snapshots) < MaxSnapshots
    /\ snapshots' = Append(snapshots, PowerUpSnapshot(cp, hp, dust, power_ups))
    /\ UNCHANGED <<appraisal, nickname, appraise_args, call_vars, probe_vars>>

\* Pokemon.evolve(species, cp, hp, dust, power_ups)
evolve(sp, cp, hp, dust, power_ups) ==
    /\ pc = "idle"
    /\ Len(snapshots) < MaxSnapshots
    /\ snapshots' = Append(snapshots, EvolutionSnapshot(sp, cp, hp, dust, power_ups))
    /\ UNCHANGED <<appraisal, nickname, appraise_args, call_vars, probe_vars>>

\* Pokemon.appraise(overall, top_hp, top_att, top_dfn, top_iv): the five
\* arguments go to the namedtuple Appraisal by position.
appraise(overall, top_hp, top_att, top_dfn, top_iv) ==
    /\ pc = "idle"
    /\ appraisal' = Appraisal(overall, top_hp, top_att, top_dfn, top_iv)
    /\ appraise_args' = AppraiseArgs(overall, top_hp, top_att, top_dfn, top_iv)
    /\ UNCHANGED <<snapshots, nickname, call_vars, probe_vars>>

\* Pokemon.rename(name)
rename(name) ==
    /\ pc = "idle"
    /\ nickname' = name
    /\ UNCHANGED <<snapshots, appraisal, appraise_args, call_vars, probe_vars>>

-----------------------------------------------------------------------------
(* calc_ivs and percentage_range *)

Raise(name) ==
    /\ pc' = "raised"
    /\ exc' = name
    /\ i' = 0
    /\ bound' = {}
    /\ cur_species' = None
    /\ possible_ivs' = {}
    /\ range' = NoneTuple

\* calc_ivs is called (by the user, or by percentage_range at line 224).
calc_ivs_call ==
    /\ pc = "idle"
    /\ pc' = "loop"
    /\ i' = 1
    /\ UNCHANGED <<bound, cur_species, possible_ivs, exc, range, record_vars, probe_vars>>

\* What one iteration of the loop makes of a StartSnapshot, lines 207-208
\* and 213-215: the candidates of a fresh capture, filtered by the
\* observation.
StartCandidates(snapshot) ==
    ObservationFilter(IV_possible_ivs(snapshot.dust, snapshot.half_levels),
                      snapshot.species, snapshot)

\* StartCandidates of every StartSnapshot the model draws, computed once.
StartCandidatesTable == [s \in StartInputs |-> StartCandidates(s)]

\* EventCandidates with the test of line 206 taking an EvolutionSnapshot for
\* a capture too: the candidates are generated afresh at an evolution.
EventCandidatesRegenerating(snapshot, sp, ivs) ==
    IF HasSpecies(snapshot)
      THEN ObservationFilter(IV_possible_ivs(snapshot.dust, FALSE), sp, snapshot)
      ELSE ObservationFilter(AdvanceAll(ivs, snapshot.power_ups), sp, snapshot)

\* What one iteration of the loop makes of any other snapshot, lines 210-211
\* and 213-215: the candidates advanced, then filtered by the observation.
EventCandidates(snapshot, sp, ivs) ==
    ObservationFilter(AdvanceAll(ivs, snapshot.power_ups), sp, snapshot)

\* One iteration of the loop of calc_ivs, lines 197-215.
calc_ivs_loop ==
    /\ pc = "loop"
    /\ i <= Len(snapshots)
    /\ LET snapshot == snapshots[i]
           sp == LoopSpecies(snapshot, cur_species)
       IN  IF snapshot.kind # "StartSnapshot" /\ "possible_ivs" \notin bound
             THEN Raise("UnboundLocalError")
           ELSE IF /\ snapshot.kind # "StartSnapshot"
                   /\ \E iv \in possible_ivs : LevelOutOfRange(iv, snapshot.power_ups)
             THEN Raise("LevelOutOfRange")
           ELSE /\ bound' = bound \cup {"possible_ivs"}
                           \cup (IF HasSpecies(snapshot) THEN {"species"} ELSE {})
                /\ cur_species' = sp
                /\ possible_ivs' =
                       IF snapshot.kind = "StartSnapshot"
                         THEN StartCandidatesTable[snapshot]
                         ELSE EventCandidates(snapshot, sp, possible_ivs)
                /\ i' = i + 1
                /\ UNCHANGED <<pc, exc, range>>
    /\ UNCHANGED <<record_vars, probe_vars>>

\* The end of calc_ivs, lines 217-221.
calc_ivs_return ==
    /\ pc = "loop"
    /\ i > Len(snapshots)
    /\ IF "possible_ivs" \notin bound
         THEN Raise("UnboundLocalError")
         ELSE /\ possible_ivs' = AppraisalFilter(possible_ivs, appraisal)
              /\ pc' = "returned"
              /\ UNCHANGED <<i, bound, cur_species, exc, range>>
    /\ UNCHANGED <<record_vars, probe_vars>>

\* MinPercentage taking the largest percentage, as if line 225 called max.
MinPercentageAsMax(ivs) ==
    CHOOSE p \in {percentage(iv) : iv \in ivs} :
        \A iv \in ivs : p >= percentage(iv)

\* percentage_range, line 225
MinPercentage(ivs) ==
    CHOOSE p \in {percentage(iv) : iv \in ivs} :
        \A iv \in ivs : p <= percentage(iv)
\* percentage_range, line 226
MaxPercentage(ivs) ==
    CHOOSE p \in {percentage(iv) : iv \in ivs} :
        \A iv \in ivs : p >= percentage(iv)

\* percentage_range, lines 225-227, on the set its call of calc_ivs returned:
\* min() and max() of an empty sequence raise ValueError.
percentage_range ==
    /\ pc = "returned"
    /\ IF possible_ivs = {}
         THEN /\ pc' = "raised"
              /\ exc' = "ValueError"
              /\ UNCHANGED <<i, bound, cur_species, possible_ivs, range>>
         ELSE /\ pc' = "range_returned"
              /\ range' = <<MinPercentage(possible_ivs), MaxPercentage(possible_ivs)>>
              /\ UNCHANGED <<i, bound, cur_species, possible_ivs, exc>>
    /\ UNCHANGED <<record_vars, probe_vars>>

\* The call is over: its locals are gone and the record can be used again.
call_ends ==
    /\ pc \in {"returned", "raised", "range_returned"}
    /\ pc' = "idle"
    /\ i' = 0
    /\ bound' = {}
    /\ cur_species' = None
    /\ possible_ivs' = {}
    /\ exc' = None
    /\ range' = NoneTuple
    /\ UNCHANGED <<record_vars, probe_vars>>

Next ==
    \/ \E o \in PowerUpObservations, d \in EventDust, n \in PowerUpSteps :
          power_up(o[1], o[2], d, n)
    \/ \E sp \in EvolveSpecies, o \in EvolveObservations, d \in EventDust,
          n \in EvolveSteps :
          evolve(sp, o[1], o[2], d, n)
    \/ \E a \in AppraiseInputs :
          appraise(a.overall, a.top_hp, a.top_att, a.top_dfn, a.top_iv)
    \/ \E name \in Names : rename(name)
    \/ calc_ivs_call
    \/ calc_ivs_loop
    \/ calc_ivs_return
    \/ percentage_range
    \/ call_ends

Spec == Init /\ [][Next]_vars

-----------------------------------------------------------------------------
(* Appraisal.valid_iv taken alone: every candidate, every statement *)

\* Every triple of hidden stats; valid_iv does not read the level.
ProbeInputs == {IV(a, d, s, 0) : a \in IVRange, d \in IVRange, s \in IVRange}

\* Every statement: a band of each kind and the three flags.
StatementInputs ==
    {Appraisal(o, fa, fd, fh, t) :
        o \in OverallAppraisal, fa \in BOOLEAN, fd \in BOOLEAN,
        fh \in BOOLEAN, t \in TopIV}

InitValid ==
    /\ snapshots = <<>>
    /\ appraisal = NoneRecord
    /\ nickname = None
    /\ appraise_args = NoneRecord
    /\ NoCall
    /\ probe \in ProbeInputs
    /\ verdict = NoneRecord

\* statement.valid_iv(probe) is called and answers.
valid_iv_call(statement) ==
    /\ verdict = NoneRecord
    /\ verdict' = [statement |-> statement, answer |-> valid_iv(statement, probe)]
    /\ UNCHANGED <<probe, record_vars, call_vars>>

NextValid == \E statement \in StatementInputs : valid_iv_call(statement)

SpecValid == InitValid /\ [][NextValid]_vars

-----------------------------------------------------------------------------
(* The claims *)

CurrentSnapshot == snapshots[i]
\* The loop of calc_ivs is at a snapshot that is not a StartSnapshot, with
\* candidates to advance.
AtEvent ==
    /\ pc = "loop"
    /\ i <= Len(snapshots)
    /\ CurrentSnapshot.kind # "StartSnapshot"
    /\ "possible_ivs" \in bound

\* C1: every step of calc_ivs that processes a PowerUp or an Evolution
\* (advance, then CP/HP filter) and the step that applies the appraisal
\* filter leaves a candidate set no larger than the one it found.  (At a
\* StartSnapshot the set is generated, not narrowed.)
MonotonicNarrowing ==
    [][(/\ pc = "loop"
        /\ "possible_ivs" \in bound
        /\ pc' \in {"loop", "returned"}
        /\ i <= Len(snapshots) => CurrentSnapshot.kind # "StartSnapshot")
       => Cardinality(possible_ivs') <= Cardinality(possible_ivs)]_vars

\* C1 witness: an event has strictly narrowed a set that is still not empty,
\* and the appraisal filter has narrowed it again.
NarrowedTwice ==
    /\ pc = "returned"
    /\ Len(snapshots) >= 2
    /\ appraisal # NoneRecord
    /\ possible_ivs # {}
    /\ Cardinality(possible_ivs) < Cardinality(StartCandidates(snapshots[1]))

\* C2: after the loop has processed snapshot k, its species is the one of
\* the last snapshot up to k that carries a species, every candidate it kept
\* has the CP and HP of snapshot k under that species, and at the end the
\* species is the one the property Pokemon.species reports.
StickySpecies ==
    /\ (pc = "loop" /\ i > 1) =>
          /\ cur_species = SpeciesBefore(snapshots, i - 1)
          /\ \A iv \in possible_ivs :
                /\ calc_cp(SpeciesBefore(snapshots, i - 1), iv) = snapshots[i - 1].cp
                /\ calc_hp(SpeciesBefore(snapshots, i - 1), iv) = snapshots[i - 1].hp
    /\ (pc = "returned" /\ Len(snapshots) > 0) => cur_species = Pokemon_species

\* C2 witness: an Evolution changed the species, a PowerUp followed, and
\* candidates are left after it.
PowerUpAfterEvolution ==
    /\ pc = "loop"
    /\ i = 4
    /\ snapshots[1].kind = "StartSnapshot"
    /\ snapshots[2].kind = "EvolutionSnapshot"
    /\ snapshots[2].species # snapshots[1].species
    /\ snapshots[3].kind = "PowerUpSnapshot"
    /\ cur_species = snapshots[2].species
    /\ possible_ivs # {}

\* The stats tied for the largest, and the stats a statement flags.
StatNames == {"att", "dfn", "sta"}
LargestStat(iv) ==
    CHOOSE m \in {iv.att, iv.dfn, iv.sta} : \A k \in StatNames : iv[k] <= m
TiedForTop(iv) == {k \in StatNames : iv[k] = LargestStat(iv)}
Flagged(statement) ==
    {k \in StatNames :
        \/ k = "att" /\ statement.top_att
        \/ k = "dfn" /\ statement.top_dfn
        \/ k = "sta" /\ statement.top_hp}

\* min <= value <= max, for a percentage given as a numerator over
\* PercentDen and limits in tenths of a percent.
PercentInBand(iv, overall) ==
    /\ OVERALL_APPRAISAL_MINIMUM_PERCENTS[overall] * PercentDen <= percentage(iv) * 10
    /\ percentage(iv) * 10 <= OVERALL_APPRAISAL_MAXIMUM_PERCENTS[overall] * PercentDen

\* C3: valid_iv answers true exactly when the percentage is in the overall
\* band, the largest stat is in the dominant-stat band, and the flagged
\* stats are exactly the stats tied for the largest.
ValidIvIsConjunction ==
    verdict # NoneRecord =>
        verdict.answer =
            (/\ PercentInBand(probe, verdict.statement.overall)
             /\ LargestStat(probe) >= IV_APPRAISAL_MINIMUM_VALUE[verdict.statement.top_iv]
             /\ LargestStat(probe) <= IV_APPRAISAL_MAXIMUM_VALUE[verdict.statement.top_iv]
             /\ Flagged(verdict.statement) = TiedForTop(probe))

\* C3 witness: both bands pass, two stats are tied for the largest, the
\* statement flags one of them only, and valid_iv has answered false.
TieRejected ==
    /\ verdict # NoneRecord
    /\ verdict.answer = FALSE
    /\ OverallPasses(verdict.statement.overall, probe)
    /\ TopIvPasses(verdict.statement.top_iv, probe)
    /\ TiedForTop(probe) = {"att", "dfn"}
    /\ Flagged(verdict.statement) = {"att"}

\* C4: after appraise, calc_ivs keeps a candidate only if each flag, as the
\* caller named it, holds of its own stat.
AppraiseFlagsOwnStat ==
    (pc = "returned" /\ appraise_args # NoneRecord) =>
        \A iv \in possible_ivs :
            /\ (iv.att = TopOf(iv)) = appraise_args.top_att
            /\ (iv.dfn = TopOf(iv)) = appraise_args.top_dfn
            /\ (iv.sta = TopOf(iv)) = appraise_args.top_hp

\* C5: when the steps of an event push some candidates past the top level,
\* calc_ivs drops those candidates and goes on with the others.
OutOfRangeDropsCandidate ==
    [][(/\ AtEvent
        /\ \E iv \in possible_ivs : LevelOutOfRange(iv, CurrentSnapshot.power_ups))
       => /\ pc' = "loop"
          /\ possible_ivs' =
                EventCandidates(
                    CurrentSnapshot, LoopSpecies(CurrentSnapshot, cur_species),
                    {iv \in possible_ivs :
                        ~LevelOutOfRange(iv, CurrentSnapshot.power_ups)})]_vars

\* C6: calc_ivs never returns a plain empty set of candidates.
NoPlainEmptyAnswer == ~(pc = "returned" /\ possible_ivs = {})

\* C7: percentage_range returns the least and the largest percentage of the
\* set calc_ivs returned, the least no larger than the largest, when the set
\* is not empty; on the empty set it ends with an error and returns nothing.
PercentageRangeCorrect ==
    /\ pc = "range_returned" =>
          /\ possible_ivs # {}
          /\ Len(range) = 2
          /\ range[1] <= range[2]
          /\ \A iv \in possible_ivs :
                range[1] <= percentage(iv) /\ percentage(iv) <= range[2]
          /\ \E iv \in possible_ivs : percentage(iv) = range[1]
          /\ \E iv \in possible_ivs : percentage(iv) = range[2]
    /\ exc = "ValueError" => possible_ivs = {} /\ range = NoneTuple

\* C7 witness: a range with its ends apart has been returned.
RangeReturned ==
    /\ pc = "range_returned"
    /\ range[1] < range[2]

\* What the observation keeps, said of the floored formula value alone:
\* nothing when the observed value is below 10, every value up to 10 when it
\* is 10, the equal value otherwise.
FloorMatches(floored, observed) ==
    IF observed < 10 THEN FALSE
    ELSE IF observed = 10 THEN floored <= 10
    ELSE floored = observed
KeptByObservation(sp, iv, snapshot) ==
    /\ FloorMatches(FloorCp(sp, iv), snapshot.cp)
    /\ FloorMatches(FloorHp(sp, iv), snapshot.hp)
\* The candidates of a fresh capture the observation keeps, computed once.
KeptAtStartTable ==
    [s \in StartInputs |->
        {iv \in IV_possible_ivs(s.dust, s.half_levels) :
            KeptByObservation(s.species, iv, s)}]

\* C8: every iteration of the loop keeps exactly the candidates (generated
\* at a StartSnapshot, advanced otherwise) whose CP and HP, each the floored
\* formula value raised to at least 10, both equal the observed ones.
ObservationKeepsExactly ==
    [][(pc = "loop" /\ i <= Len(snapshots) /\ pc' = "loop")
       => possible_ivs' =
            IF CurrentSnapshot.kind = "StartSnapshot"
              THEN KeptAtStartTable[CurrentSnapshot]
              ELSE {iv \in AdvanceAll(possible_ivs, CurrentSnapshot.power_ups) :
                       KeptByObservation(cur_species', iv, CurrentSnapshot)}]_vars

\* C8 witness: the observation CP = 10, HP = 10 has kept a candidate whose
\* formula values are both below 10 and one whose CP formula value is 10.
FloorValuesKept ==
    /\ pc = "loop"
    /\ i = 2
    /\ snapshots[1].cp = 10
    /\ snapshots[1].hp = 10
    /\ \E iv \in possible_ivs :
          FloorCp(cur_species, iv) < 10 /\ FloorHp(cur_species, iv) < 10
    /\ \E iv \in possible_ivs : FloorCp(cur_species, iv) = 10

\* C9: the first snapshot of the timeline is a StartSnapshot and no later
\* one is.
TimelineStartsWithOrigin ==
    /\ Len(snapshots) >= 1 => snapshots[1].kind = "StartSnapshot"
    /\ \A k \in 2..Len(snapshots) : snapshots[k].kind # "StartSnapshot"

\* C10: for the candidate handed to valid_iv, exactly one overall band
\* passes the overall check and exactly one dominant-stat band passes the
\* top-stat check.
BandsPartition ==
    verdict # NoneRecord =>
        /\ Cardinality({o \in OverallAppraisal : OverallPasses(o, probe)}) = 1
        /\ Cardinality({t \in TopIV : TopIvPasses(t, probe)}) = 1

=============================================================================
